---- MODULE Spec2Model ----
(***************************************************************************)
(* cargo-dl: App::run (src/main.rs).  The main flow checks the arguments,  *)
(* creates the multi-progress display and the spawning flag, and starts a  *)
(* spawner thread.  The spawner opens and refreshes the registry index and *)
(* then, for every spec, adds a progress line and starts a worker thread.  *)
(* The main flow renders the display while the spawning flag is set, then  *)
(* joins the spawner and the workers in spec order.                        *)
(***************************************************************************)
EXTENDS Integers, Sequences, FiniteSets, TLC

\* ------------------------------------------------------------------ bounds

\* Largest number of specs on the command line.
MaxSpecs == 2

\* ------------------------------------------------------- registry contents

NoParse == [ok |-> FALSE]

\* semver::Version::parse on the version strings that occur in the index.
ParseVersion(s) ==
    CASE s = "1.0.0"     -> [ok |-> TRUE, major |-> 1, minor |-> 0, patch |-> 0, pre |-> FALSE]
      [] s = "1.1.0"     -> [ok |-> TRUE, major |-> 1, minor |-> 1, patch |-> 0, pre |-> FALSE]
      [] s = "1.2.0-pre" -> [ok |-> TRUE, major |-> 1, minor |-> 2, patch |-> 0, pre |-> TRUE]
      [] s = "2.0.0"     -> [ok |-> TRUE, major |-> 2, minor |-> 0, patch |-> 0, pre |-> FALSE]
      [] OTHER           -> NoParse

Release(n, v, y) == [name |-> n, version |-> v, yanked |-> y]

\* krate.versions(): the releases of a crate in index order.
SerdeVersions ==
    << Release("serde", "1.0.0", FALSE), Release("serde", "1.2.0-pre", FALSE),
       Release("serde", "1.1.0", FALSE), Release("serde", "2.0.0", TRUE),
       Release("serde", "one", FALSE) >>

\* A crate whose only plain release is yanked, next to a pre-release.
RandVersions ==
    << Release("rand", "1.2.0-pre", FALSE), Release("rand", "1.0.0", TRUE) >>

\* A crate with several yanked releases in one major version.
SynVersions ==
    << Release("syn", "one", TRUE), Release("syn", "1.0.0", TRUE),
       Release("syn", "2.0.0", FALSE), Release("syn", "1.1.0", TRUE) >>

\* index.crate_(name): the releases of the crate, or <<>> for None.
IndexCrate(name) ==
    CASE name = "serde" -> SerdeVersions
      [] name = "rand"  -> RandVersions
      [] name = "syn"   -> SynVersions
      [] OTHER          -> << >>

CrateExists(name) == IndexCrate(name) # << >>

\* ------------------------------------------------------------- the specs

\* PackageIdSpec: a crate name and an optional version requirement.
\* "none" is the absent requirement, "^1", "^2" and "^3" caret requirements.
Spec0(n, r) == [name |-> n, req |-> r]

\* The specs of the command lines: serde@^2 matches only the yanked 2.0.0
\* (selected with --allow-yanked, no match without), nope is in no index.
Specs == { Spec0("serde", "^2"), Spec0("nope", "none") }

\* The specs of a command line with a single spec: every crate name with
\* every requirement.
SingleSpecs ==
    { Spec0(n, r) : n \in { "serde", "rand", "syn", "nope" },
                    r \in { "none", "^1", "^2", "^3" } }

\* Display of a PackageIdSpec: NAME or NAME@REQ.
SpecToString(spec) ==
    IF spec.req = "none" THEN <<spec.name>> ELSE <<spec.name, "@", spec.req>>

\* spec.version_req.clone().unwrap_or(VersionReq::STAR): the comparators.
Comparators(req) ==
    CASE req = "none" -> << >>
      [] req = "^1"   -> << [op |-> "caret", major |-> 1, pre |-> FALSE] >>
      [] req = "^2"   -> << [op |-> "caret", major |-> 2, pre |-> FALSE] >>
      [] req = "^3"   -> << [op |-> "caret", major |-> 3, pre |-> FALSE] >>

\* One comparator against a version (caret with only a major number).
MatchesComparator(c, v) == c.op = "caret" /\ v.major = c.major

\* VersionReq::matches without the pre-release rule.
VersionMatchesAnyPre(req, v) ==
    LET cs == Comparators(req) IN
    \A k \in 1..Len(cs) : MatchesComparator(cs[k], v)

\* VersionReq::matches: every comparator matches, and a pre-release version
\* is admitted only by a comparator that itself names a pre-release of the
\* same major.minor.patch.
VersionMatches(req, v) ==
    LET cs == Comparators(req) IN
    /\ \A k \in 1..Len(cs) : MatchesComparator(cs[k], v)
    /\ (v.pre => \E k \in 1..Len(cs) : cs[k].pre)

\* Ord for semver::Version: a < b.
VersionLess(a, b) ==
    \/ a.major < b.major
    \/ a.major = b.major /\ a.minor < b.minor
    \/ a.major = b.major /\ a.minor = b.minor /\ a.patch < b.patch
    \/ a.major = b.major /\ a.minor = b.minor /\ a.patch = b.patch
         /\ a.pre /\ ~b.pre

RECURSIVE FilterReleases(_, _, _)
\* The filter chain of a selection: keep the releases whose yanked flag
\* passes keep, drop the versions that do not parse, keep those matching req.
FilterReleases(rs, req, keep) ==
    IF rs = << >> THEN << >>
    ELSE LET r == Head(rs)
             num == ParseVersion(r.version)
             rest == FilterReleases(Tail(rs), req, keep)
         IN IF keep[r.yanked] /\ num.ok /\ VersionMatches(req, num)
            THEN << r >> \o rest ELSE rest

RECURSIVE InsertDesc(_, _)
InsertDesc(r, sorted) ==
    IF sorted = << >> THEN << r >>
    ELSE IF VersionLess(ParseVersion(r.version), ParseVersion(Head(sorted).version))
         THEN << Head(sorted) >> \o InsertDesc(r, Tail(sorted))
         ELSE << r >> \o sorted

\* A sort that leaves the index order.
SortIndexOrder(rs) == rs

RECURSIVE SortDesc(_)
\* versions.sort_by(|a, b| a.cmp(b).reverse())
SortDesc(rs) == IF rs = << >> THEN << >> ELSE InsertDesc(Head(rs), SortDesc(Tail(rs)))

\* The candidate list `versions` of the worker, newest first.
MatchingVersions(spec, allow_yanked) ==
    SortDesc(FilterReleases(IndexCrate(spec.name), spec.req,
                            [y \in BOOLEAN |-> allow_yanked \/ ~y]))

\* The list `yanked_versions` of the diagnostic path.
YankedVersions(spec) ==
    SortDesc(FilterReleases(IndexCrate(spec.name), spec.req,
                            [y \in BOOLEAN |-> y]))

\* The message naming the lowest yanked match.
NoMatchMessageLowest(spec) ==
    LET ys == YankedVersions(spec) IN
    IF ys = << >> THEN << "no matching version found" >>
    ELSE << "no matching version found", "yanked", ys[Len(ys)].name,
            ys[Len(ys)].version, "use --allow-yanked" >>

\* The message of the failed selection.
NoMatchMessage(spec) ==
    LET ys == YankedVersions(spec) IN
    IF ys = << >> THEN << "no matching version found" >>
    ELSE << "no matching version found", "yanked", ys[1].name, ys[1].version,
            "use --allow-yanked" >>

\* Sha256::digest of a body; the index records the digest of the archive.
Sha256(data) == << "sha256", data >>

Checksum(release) == << "sha256", << release.name, release.version >> >>

\* The bodies a download can produce: the archive of the release, or other bytes.
Bodies(release) == { << release.name, release.version >>, << "other" >> }

\* ------------------------------------------------------------------ state

VARIABLES
    app,            \* the parsed command line: specs, output, extract, allow_yanked, cache
    mainPc,         \* position of the main flow in App::run
    result,         \* how App::run ended
    logged_error,   \* the local of the join loop
    joined,         \* the workers whose JoinHandle the main flow has joined
    barsCreated,    \* the MultiProgress exists
    spawning,       \* the AtomicBool
    spawnerPc,      \* position of the spawner thread
    spawnerRes,     \* what the spawner thread ended with
    nextSpec,       \* the spec the spawner's iterator is at
    refreshes,      \* number of calls of index.update()
    indexFresh,     \* index.update() has returned Ok
    lines,          \* the progress lines: 0 is the index line, i the line of spec i
    w               \* the workers, by position of their spec

vars == << app, mainPc, result, logged_error, joined, barsCreated, spawning,
           spawnerPc, spawnerRes, nextSpec, refreshes, indexFresh, lines, w >>

N == Len(app.specs)
Workers == 1..N
IndexLine == 0

RECURSIVE SeqsOfLen(_, _)
SeqsOfLen(S, n) ==
    IF n = 0 THEN { << >> }
    ELSE { Append(q, x) : q \in SeqsOfLen(S, n - 1), x \in S }

\* The command lines: clap requires at least one spec.
SpecLists == UNION { SeqsOfLen(Specs, n) : n \in 1..MaxSpecs }

NoError == [worker |-> 0, kind |-> "none"]

NoResult == [kind |-> "none", ctx |-> << >>, err |-> NoError]

NoLine ==
    [adds |-> 0, style |-> "none", prefix |-> << >>, msg |-> << >>,
     fin |-> 0, late |-> 0, dropped |-> FALSE]

IdleWorker ==
    [pc |-> "idle", outcome |-> "none", err |-> NoError, body |-> << >>,
     wrote |-> FALSE, http |-> 0, probes |-> 0]

\* The state after App::parse for a command line out of cmds.
Start(cmds) ==
    /\ app \in [specs : cmds, output : BOOLEAN, extract : BOOLEAN,
                allow_yanked : BOOLEAN, cache : BOOLEAN]
    /\ mainPc = "check"
    /\ result = NoResult
    /\ logged_error = FALSE
    /\ joined = { }
    /\ barsCreated = FALSE
    /\ spawning = TRUE
    /\ spawnerPc = "idle"
    /\ spawnerRes = "none"
    /\ nextSpec = 1
    /\ refreshes = 0
    /\ indexFresh = FALSE
    /\ lines = [l \in 0..Len(app.specs) |-> NoLine]
    /\ w = [i \in 1..Len(app.specs) |-> IdleWorker]

Init == Start(SpecLists)

\* The command lines with one spec.
SingleInit == Start({ << s >> : s \in SingleSpecs })

\* ---------------------------------------------------------- progress lines

\* The style of a line is the colour of its template: SPINNER_TEMPLATE and
\* DOWNLOAD_TEMPLATE are cyan, SUCCESS_SPINNER_TEMPLATE is green and
\* FAILURE_SPINNER_TEMPLATE is red (lines 15-19).

\* Any operation of the owner on its bar; late counts those after a finish.
Touch(l) == [l EXCEPT !.late = IF l.fin > 0 THEN 1 ELSE @]

\* bars.add(ProgressBar::new_spinner()).with_style(...)
AddLine(l, style) == [l EXCEPT !.adds = @ + 1, !.style = style]

SetStyle(l, style) == [Touch(l) EXCEPT !.style = style]

SetPrefix(l, p) == [Touch(l) EXCEPT !.prefix = p]

SetMessage(l, m) == [Touch(l) EXCEPT !.msg = m]

FinishWithMessage(l, m) ==
    [Touch(l) EXCEPT !.msg = m, !.fin = IF @ < 2 THEN @ + 1 ELSE @]

\* The bar is dropped when the closure owning it returns or unwinds.
DropBar(l) == [l EXCEPT !.dropped = TRUE]

\* MultiProgress::join returns once every bar added so far is done.
LineDone(l) == l.adds = 0 \/ l.fin > 0 \/ l.dropped

\* ------------------------------------------------------- the worker's data

\* The release the worker of spec i selects (versions.first()).
Selected(i) == MatchingVersions(app.specs[i], app.allow_yanked)[1]

\* version_str
VersionStr(i) == << Selected(i).name, Selected(i).version >>

\* self.output.clone().unwrap_or_else(...): `out` stands for the given path.
Output(i) ==
    IF app.output THEN << "out" >>
    ELSE IF app.extract THEN << Selected(i).name, "-", Selected(i).version >>
    ELSE << Selected(i).name, "-", Selected(i).version, ".crate" >>

\* The process is alive: App::run has not returned to main, which ends it.
Running == mainPc # "done"

\* --------------------------------------------------------- the main flow

\* MainCheck without the test of line 81.
MainCheckUnchecked ==
    /\ mainPc = "check"
    /\ mainPc' = "create"
    /\ UNCHANGED << app, result, logged_error, joined, barsCreated, spawning, spawnerPc,
                    spawnerRes, nextSpec, refreshes, indexFresh, lines, w >>

\* Lines 81-83: the up-front check of --output against the number of specs.
MainCheck ==
    /\ mainPc = "check"
    /\ IF N > 1 /\ app.output
       THEN /\ result' = [NoResult EXCEPT !.kind = "InvalidUsage",
                             !.ctx = << "cannot use --output with multiple crates" >>]
            /\ mainPc' = "done"
       ELSE /\ mainPc' = "create"
            /\ UNCHANGED result
    /\ UNCHANGED << app, logged_error, joined, barsCreated, spawning, spawnerPc,
                    spawnerRes, nextSpec, refreshes, indexFresh, lines, w >>

\* Lines 85-87: the display, the flag (true) and the spawner thread.
MainCreate ==
    /\ mainPc = "create"
    /\ barsCreated' = TRUE
    /\ spawning' = TRUE
    /\ spawnerPc' = "open"
    /\ mainPc' = "loop"
    /\ UNCHANGED << app, result, logged_error, joined, spawnerRes, nextSpec,
                    refreshes, indexFresh, lines, w >>

\* Line 279: spawning.load(SeqCst).
MainLoad ==
    /\ mainPc = "loop"
    /\ mainPc' = IF spawning THEN "render" ELSE "join_spawner"
    /\ UNCHANGED << app, result, logged_error, joined, barsCreated, spawning,
                    spawnerPc, spawnerRes, nextSpec, refreshes, indexFresh, lines, w >>

\* Line 280: bars.join() returns Ok once every line added so far is done.
MainRender ==
    /\ mainPc = "render"
    /\ \A l \in DOMAIN lines : LineDone(lines[l])
    /\ mainPc' = "loop"
    /\ UNCHANGED << app, result, logged_error, joined, barsCreated, spawning,
                    spawnerPc, spawnerRes, nextSpec, refreshes, indexFresh, lines, w >>

\* Line 280: bars.join()? fails with an I/O error of the terminal.
MainRenderFail ==
    /\ mainPc = "render"
    /\ result' = [NoResult EXCEPT !.kind = "RenderIO"]
    /\ mainPc' = "done"
    /\ UNCHANGED << app, logged_error, joined, barsCreated, spawning, spawnerPc,
                    spawnerRes, nextSpec, refreshes, indexFresh, lines, w >>

\* Lines 283-285 and 299: thread.join() of the spawner, then `threads?`.
MainJoinSpawner ==
    /\ mainPc = "join_spawner"
    /\ spawnerPc = "done"
    /\ CASE spawnerRes = "Ok" ->
              /\ mainPc' = "join_workers"
              /\ UNCHANGED result
         [] spawnerRes = "Err" ->
              /\ result' = [NoResult EXCEPT !.kind = "SpawnerErr"]
              /\ mainPc' = "done"
         [] OTHER ->
              /\ result' = [NoResult EXCEPT !.kind = "Panic"]
              /\ mainPc' = "done"
    /\ UNCHANGED << app, logged_error, joined, barsCreated, spawning, spawnerPc,
                    spawnerRes, nextSpec, refreshes, indexFresh, lines, w >>

\* Context that names the first spec of the command line.
ContextOfFirst(i) == << "could not acquire" >> \o SpecToString(app.specs[1])

\* Line 292: format!("could not acquire {}", spec), spec the one of the handle.
Context(i) == << "could not acquire" >> \o SpecToString(app.specs[i])

\* The worker the join loop is at: the first one not joined yet.
JoinIdx == Cardinality(joined) + 1

\* Lines 285-297: one iteration of the join loop, thread.join() of a worker.
MainJoinWorker ==
    /\ mainPc = "join_workers"
    /\ JoinIdx <= N
    /\ LET i == JoinIdx IN
       /\ w[i].pc = "done"
       /\ joined' = joined \cup { i }
       /\ CASE w[i].outcome = "Ok" ->
                 UNCHANGED << logged_error, result, mainPc >>
            [] w[i].outcome = "Logged" ->
                 /\ logged_error' = TRUE
                 /\ UNCHANGED << result, mainPc >>
            [] w[i].outcome = "Propagated" ->
                 /\ result' = [kind |-> "Propagated",
                               ctx |-> Context(i),
                               err |-> w[i].err]
                 /\ mainPc' = "done"
                 /\ UNCHANGED logged_error
            [] OTHER ->
                 /\ result' = [NoResult EXCEPT !.kind = "Panic", !.err = w[i].err]
                 /\ mainPc' = "done"
                 /\ UNCHANGED logged_error
    /\ UNCHANGED << app, barsCreated, spawning, spawnerPc, spawnerRes, nextSpec,
                    refreshes, indexFresh, lines, w >>

\* MainFinish that forgets logged_error.
MainFinishOk ==
    /\ mainPc = "join_workers"
    /\ JoinIdx > N
    /\ result' = [NoResult EXCEPT !.kind = "Ok"]
    /\ mainPc' = "done"
    /\ UNCHANGED << app, logged_error, joined, barsCreated, spawning, spawnerPc,
                    spawnerRes, nextSpec, refreshes, indexFresh, lines, w >>

\* Lines 301-304: after the loop, the sentinel or success.
MainFinish ==
    /\ mainPc = "join_workers"
    /\ JoinIdx > N
    /\ result' = [NoResult EXCEPT !.kind = IF logged_error THEN "LoggedError" ELSE "Ok"]
    /\ mainPc' = "done"
    /\ UNCHANGED << app, logged_error, joined, barsCreated, spawning, spawnerPc,
                    spawnerRes, nextSpec, refreshes, indexFresh, lines, w >>

\* ----------------------------------------------------------- the spawner

\* Lines 88-92: open the index, then add the index line ("updating").
SpawnerOpen ==
    /\ Running
    /\ spawnerPc = "open"
    /\ \E ok \in BOOLEAN :
         IF ok
         THEN /\ lines' = [lines EXCEPT ![IndexLine] =
                    SetMessage(SetPrefix(AddLine(@, "cyan"), << "crates.io index" >>),
                               << "updating" >>)]
              /\ spawnerPc' = "update"
              /\ UNCHANGED spawnerRes
         ELSE /\ spawnerRes' = "Err"
              /\ spawnerPc' = "done"
              /\ UNCHANGED lines
    /\ UNCHANGED << app, mainPc, result, logged_error, joined, barsCreated, spawning,
                    nextSpec, refreshes, indexFresh, w >>

\* SpawnerUpdate with the error of index.update() dropped instead of returned.
SpawnerUpdateUnchecked ==
    /\ Running
    /\ spawnerPc = "update"
    /\ refreshes' = refreshes + 1
    /\ \E ok \in BOOLEAN :
         /\ indexFresh' = ok
         /\ lines' = [lines EXCEPT ![IndexLine] =
               FinishWithMessage(SetStyle(@, "green"), << "updated" >>)]
         /\ spawnerPc' = "addline"
    /\ UNCHANGED << app, mainPc, result, logged_error, joined, barsCreated, spawning,
                    spawnerRes, nextSpec, w >>

\* Lines 93-97: index.update()?, then the index line is finished ("updated").
SpawnerUpdate ==
    /\ Running
    /\ spawnerPc = "update"
    /\ refreshes' = refreshes + 1
    /\ \E ok \in BOOLEAN :
         IF ok
         THEN /\ indexFresh' = TRUE
              /\ lines' = [lines EXCEPT ![IndexLine] =
                    FinishWithMessage(SetStyle(@, "green"), << "updated" >>)]
              /\ spawnerPc' = "addline"
              /\ UNCHANGED spawnerRes
         ELSE /\ spawnerRes' = "Err"
              /\ spawnerPc' = "done"
              /\ lines' = [lines EXCEPT ![IndexLine] = DropBar(@)]
              /\ UNCHANGED indexFresh
    /\ UNCHANGED << app, mainPc, result, logged_error, joined, barsCreated, spawning,
                    nextSpec, w >>

\* Line 100: the iterator adds the line of the next spec.
SpawnerAddLine ==
    /\ Running
    /\ spawnerPc = "addline"
    /\ nextSpec <= N
    /\ lines' = [lines EXCEPT ![nextSpec] = AddLine(@, "cyan")]
    /\ spawnerPc' = "spawn"
    /\ UNCHANGED << app, mainPc, result, logged_error, joined, barsCreated, spawning,
                    spawnerRes, nextSpec, refreshes, indexFresh, w >>

\* Line 101: std::thread::spawn of the worker of that spec.
SpawnerSpawn ==
    /\ Running
    /\ spawnerPc = "spawn"
    /\ w' = [w EXCEPT ![nextSpec].pc = "start"]
    /\ nextSpec' = nextSpec + 1
    /\ spawnerPc' = "addline"
    /\ UNCHANGED << app, mainPc, result, logged_error, joined, barsCreated, spawning,
                    spawnerRes, refreshes, indexFresh, lines >>

\* Line 101: std::thread::spawn panics when the OS cannot start a thread;
\* the unwinding drops the bar of the spec and the index bar.
SpawnerSpawnPanic ==
    /\ Running
    /\ spawnerPc = "spawn"
    /\ spawnerRes' = "Panicked"
    /\ spawnerPc' = "done"
    /\ lines' = [lines EXCEPT ![nextSpec] = DropBar(@), ![IndexLine] = DropBar(@)]
    /\ UNCHANGED << app, mainPc, result, logged_error, joined, barsCreated, spawning,
                    nextSpec, refreshes, indexFresh, w >>

\* SpawnerStore moved into the iterator: the flag is cleared once the first
\* line has been added.
SpawnerStoreEarly ==
    /\ Running
    /\ spawnerPc = "addline"
    /\ nextSpec > 1
    /\ spawning' = FALSE
    /\ spawnerRes' = "Ok"
    /\ spawnerPc' = "done"
    /\ lines' = [lines EXCEPT ![IndexLine] = DropBar(@)]
    /\ UNCHANGED << app, mainPc, result, logged_error, joined, barsCreated,
                    nextSpec, refreshes, indexFresh, w >>

\* Lines 274-275: spawning.store(false), and the handles are returned.
SpawnerStore ==
    /\ Running
    /\ spawnerPc = "addline"
    /\ nextSpec > N
    /\ spawning' = FALSE
    /\ spawnerRes' = "Ok"
    /\ spawnerPc' = "done"
    /\ lines' = [lines EXCEPT ![IndexLine] = DropBar(@)]
    /\ UNCHANGED << app, mainPc, result, logged_error, joined, barsCreated,
                    nextSpec, refreshes, indexFresh, w >>

\* ----------------------------------------------------------- the workers

\* A `?` or `return Err(..)` of a non-LoggedError error of the given kind.
Propagate(wi, i, kind) ==
    [wi EXCEPT !.pc = "done", !.outcome = "Propagated",
               !.err = [worker |-> i, kind |-> kind]]

\* ReturnLogged without the return: the closure goes on to the selection.
ReturnLoggedFallThrough(wi) == [wi EXCEPT !.pc = "select"]

\* return Err(LoggedError.into())
ReturnLogged(wi) == [wi EXCEPT !.pc = "done", !.outcome = "Logged"]

\* Result::Ok(()) of line 271.
ReturnOk(wi) == [wi EXCEPT !.pc = "done", !.outcome = "Ok"]

\* The closure unwinds with a panic payload.
Unwind(wi, i) ==
    [wi EXCEPT !.pc = "done", !.outcome = "Panicked",
               !.err = [worker |-> i, kind |-> "panic"]]

\* FinishFailure that sets the message without finishing the bar.
FinishFailureUnfinished(l, msg) == SetMessage(SetStyle(l, "red"), msg)

\* set_style(FAILURE_SPINNER_TEMPLATE); finish_with_message(msg)
FinishFailure(l, msg) == FinishWithMessage(SetStyle(l, "red"), msg)

\* FinishSuccess that sets the message without finishing the bar.
FinishSuccessUnfinished(l, msg) == SetMessage(SetStyle(l, "green"), msg)

\* set_style(SUCCESS_SPINNER_TEMPLATE); finish_with_message(msg)
FinishSuccess(l, msg) == FinishWithMessage(SetStyle(l, "green"), msg)

WorkerFrame == << app, mainPc, result, logged_error, joined, barsCreated, spawning,
                  spawnerPc, spawnerRes, nextSpec, refreshes, indexFresh >>

\* Lines 102-107: tick, prefix, the worker's own index handle, first message.
WStart(i) ==
    /\ Running
    /\ w[i].pc = "start"
    /\ \E ok \in BOOLEAN :
         IF ok
         THEN /\ lines' = [lines EXCEPT ![i] =
                    SetMessage(SetPrefix(Touch(@), SpecToString(app.specs[i])),
                               << "selecting version" >>)]
              /\ w' = [w EXCEPT ![i].pc = "lookup"]
         ELSE /\ lines' = [lines EXCEPT ![i] =
                    DropBar(SetPrefix(Touch(@), SpecToString(app.specs[i])))]
              /\ w' = [w EXCEPT ![i] = Propagate(@, i, "IndexOpen")]
    /\ UNCHANGED WorkerFrame

\* WLookup going on to the selection whether the crate is in the index or not.
WLookupUnchecked(i) ==
    /\ Running
    /\ w[i].pc = "lookup"
    /\ w' = [w EXCEPT ![i].pc = "select"]
    /\ UNCHANGED lines
    /\ UNCHANGED WorkerFrame

\* Lines 109-116: index.crate_(name).
WLookup(i) ==
    /\ Running
    /\ w[i].pc = "lookup"
    /\ IF CrateExists(app.specs[i].name)
       THEN /\ w' = [w EXCEPT ![i].pc = "select"]
            /\ UNCHANGED lines
       ELSE /\ lines' = [lines EXCEPT ![i] =
                  DropBar(FinishFailure(@, << "could not find crate in the index" >>))]
            /\ w' = [w EXCEPT ![i] = ReturnLogged(@)]
    /\ UNCHANGED WorkerFrame

\* WSelect probing the cache whatever self.cache says.
WSelectProbeAlways(i) ==
    /\ Running
    /\ w[i].pc = "select"
    /\ IF MatchingVersions(app.specs[i], app.allow_yanked) # << >>
       THEN /\ w' = [w EXCEPT ![i].pc = "probe"]
            /\ UNCHANGED lines
       ELSE /\ lines' = [lines EXCEPT ![i] =
                  DropBar(FinishFailure(@, NoMatchMessage(app.specs[i])))]
            /\ w' = [w EXCEPT ![i] = ReturnLogged(@)]
    /\ UNCHANGED WorkerFrame

\* Lines 123-192: the candidate versions, the selected one, the output path,
\* and the test of self.cache.
WSelect(i) ==
    /\ Running
    /\ w[i].pc = "select"
    /\ IF MatchingVersions(app.specs[i], app.allow_yanked) # << >>
       THEN /\ w' = [w EXCEPT ![i].pc = IF app.cache THEN "probe" ELSE "fetch"]
            /\ UNCHANGED lines
       ELSE /\ lines' = [lines EXCEPT ![i] =
                  DropBar(FinishFailure(@, NoMatchMessage(app.specs[i])))]
            /\ w' = [w EXCEPT ![i] = ReturnLogged(@)]
    /\ UNCHANGED WorkerFrame

\* Lines 192-198: cache::lookup, called only when the cache is enabled
\* (with the cache disabled `cached` is an Err and the fetch path is taken).
WProbe(i) ==
    /\ Running
    /\ w[i].pc = "probe"
    /\ \E hit \in BOOLEAN :
         /\ lines' = [lines EXCEPT ![i] =
                SetMessage(@, << "checking cache for" >> \o VersionStr(i))]
         /\ w' = [w EXCEPT ![i].probes = @ + 1,
                           ![i].pc = IF hit THEN "cached" ELSE "fetch"]
    /\ UNCHANGED WorkerFrame

\* WCached falling back to the download when the cached file cannot be opened.
WCachedFallback(i) ==
    /\ Running
    /\ w[i].pc = "cached"
    /\ IF app.extract
       THEN \E ok \in BOOLEAN :
              LET l == SetMessage(lines[i], << "extracting" >> \o VersionStr(i)
                                            \o << "to" >> \o Output(i)) IN
              IF ok
              THEN /\ lines' = [lines EXCEPT ![i] = SetStyle(Touch(l), "cyan")]
                   /\ w' = [w EXCEPT ![i].pc = "cached_write"]
              ELSE /\ lines' = [lines EXCEPT ![i] = l]
                   /\ w' = [w EXCEPT ![i].pc = "fetch"]
       ELSE /\ lines' = [lines EXCEPT ![i] =
                  SetMessage(@, << "writing" >> \o VersionStr(i)
                                \o << "to" >> \o Output(i))]
            /\ w' = [w EXCEPT ![i].pc = "cached_write"]
    /\ UNCHANGED WorkerFrame

\* Lines 201-209 and 215-216: a cache hit; for an extraction the cached file
\* is opened and the bar becomes a byte bar.
WCached(i) ==
    /\ Running
    /\ w[i].pc = "cached"
    /\ IF app.extract
       THEN \E ok \in BOOLEAN :
              LET l == SetMessage(lines[i], << "extracting" >> \o VersionStr(i)
                                            \o << "to" >> \o Output(i)) IN
              IF ok
              THEN /\ lines' = [lines EXCEPT ![i] = SetStyle(Touch(l), "cyan")]
                   /\ w' = [w EXCEPT ![i].pc = "cached_write"]
              ELSE /\ lines' = [lines EXCEPT ![i] = DropBar(l)]
                   /\ w' = [w EXCEPT ![i] = Propagate(@, i, "CacheOpen")]
       ELSE /\ lines' = [lines EXCEPT ![i] =
                  SetMessage(@, << "writing" >> \o VersionStr(i)
                                \o << "to" >> \o Output(i))]
            /\ w' = [w EXCEPT ![i].pc = "cached_write"]
    /\ UNCHANGED WorkerFrame

\* The terminal message of a materialization.
DoneMessage(i) ==
    << IF app.extract THEN "extracted" ELSE "written" >> \o VersionStr(i)
        \o << "to" >> \o Output(i)

\* Lines 210-213 and 217-219: unpack::unpack or std::fs::copy of the cached
\* file into the output path (wrote: the output path has been written to,
\* wholly or, on a failure, in part).
WCachedWrite(i) ==
    /\ Running
    /\ w[i].pc = "cached_write"
    /\ \E ok \in BOOLEAN :
         IF ok
         THEN /\ lines' = [lines EXCEPT ![i] = DropBar(FinishSuccess(@, DoneMessage(i)))]
              /\ w' = [w EXCEPT ![i] = ReturnOk([@ EXCEPT !.wrote = TRUE])]
         ELSE /\ lines' = [lines EXCEPT ![i] = DropBar(@)]
              /\ w' = [w EXCEPT ![i] =
                         Propagate([@ EXCEPT !.wrote = TRUE], i,
                                   IF app.extract THEN "Unpack" ELSE "Copy")]
    /\ UNCHANGED WorkerFrame

\* Lines 225-227: the download url, the message, the HTTP GET.
WFetch(i) ==
    /\ Running
    /\ w[i].pc = "fetch"
    /\ \E r \in { "nourl", "refused", "ok" } :
         CASE r = "nourl" ->
                /\ lines' = [lines EXCEPT ![i] = DropBar(@)]
                /\ w' = [w EXCEPT ![i] = Propagate(@, i, "Url")]
           [] r = "refused" ->
                /\ lines' = [lines EXCEPT ![i] =
                       DropBar(SetMessage(@, << "downloading" >> \o VersionStr(i)))]
                /\ w' = [w EXCEPT ![i] = Propagate([@ EXCEPT !.http = @ + 1], i, "Http")]
           [] OTHER ->
                /\ lines' = [lines EXCEPT ![i] =
                       SetMessage(@, << "downloading" >> \o VersionStr(i))]
                /\ w' = [w EXCEPT ![i].http = @ + 1, ![i].pc = "read"]
    /\ UNCHANGED WorkerFrame

\* Lines 228-237: the buffer (Vec::with_capacity panics on a Content-Length
\* beyond the capacity limit), the byte bar, and read_to_end under the cap.
WRead(i) ==
    /\ Running
    /\ w[i].pc = "read"
    /\ \E len \in { "absent", "present", "overflow" }, ok \in BOOLEAN,
          data \in Bodies(Selected(i)) :
         LET l == IF len = "present" THEN SetStyle(Touch(lines[i]), "cyan")
                  ELSE lines[i] IN
         CASE len = "overflow" ->
                /\ ok /\ data = << "other" >>
                /\ lines' = [lines EXCEPT ![i] = DropBar(@)]
                /\ w' = [w EXCEPT ![i] = Unwind(@, i)]
           [] ~ok ->
                /\ data = << "other" >>
                /\ lines' = [lines EXCEPT ![i] = DropBar(l)]
                /\ w' = [w EXCEPT ![i] = Propagate(@, i, "Read")]
           [] OTHER ->
                /\ lines' = [lines EXCEPT ![i] = l]
                /\ w' = [w EXCEPT ![i].body = data, ![i].pc = "verify"]
    /\ UNCHANGED WorkerFrame

\* WVerify without the comparison of line 243.
WVerifyUnchecked(i) ==
    /\ Running
    /\ w[i].pc = "verify"
    /\ lines' = [lines EXCEPT ![i] =
           SetMessage(SetStyle(@, "cyan"), << "verifying checksum of" >> \o VersionStr(i))]
    /\ w' = [w EXCEPT ![i].pc = "write"]
    /\ UNCHANGED WorkerFrame

\* Lines 240-250: the digest of the body against the recorded checksum.
WVerify(i) ==
    /\ Running
    /\ w[i].pc = "verify"
    /\ LET l == SetMessage(SetStyle(lines[i], "cyan"),
                           << "verifying checksum of" >> \o VersionStr(i)) IN
       IF Sha256(w[i].body) # Checksum(Selected(i))
       THEN /\ lines' = [lines EXCEPT ![i] =
                  DropBar(FinishFailure(l, << "invalid checksum" >>))]
            /\ w' = [w EXCEPT ![i] = ReturnLogged(@)]
       ELSE /\ lines' = [lines EXCEPT ![i] = l]
            /\ w' = [w EXCEPT ![i].pc = "write"]
    /\ UNCHANGED WorkerFrame

\* Lines 252-268: unpack::unpack or std::fs::write of the verified body.
WWrite(i) ==
    /\ Running
    /\ w[i].pc = "write"
    /\ \E ok \in BOOLEAN :
         LET l == IF app.extract
                  THEN SetStyle(Touch(SetMessage(lines[i],
                           << "extracting" >> \o VersionStr(i) \o << "to" >> \o Output(i))),
                           "cyan")
                  ELSE SetMessage(lines[i],
                           << "writing" >> \o VersionStr(i) \o << "to" >> \o Output(i)) IN
         IF ok
         THEN /\ lines' = [lines EXCEPT ![i] = DropBar(FinishSuccess(l, DoneMessage(i)))]
              /\ w' = [w EXCEPT ![i] = ReturnOk([@ EXCEPT !.wrote = TRUE])]
         ELSE /\ lines' = [lines EXCEPT ![i] = DropBar(l)]
              /\ w' = [w EXCEPT ![i] =
                         Propagate([@ EXCEPT !.wrote = TRUE], i,
                                   IF app.extract THEN "Unpack" ELSE "Write")]
    /\ UNCHANGED WorkerFrame

\* ------------------------------------------------------- the specification

Next ==
    \/ MainCheck
    \/ MainCreate
    \/ MainLoad
    \/ MainRender
    \/ MainRenderFail
    \/ MainJoinSpawner
    \/ MainJoinWorker
    \/ MainFinish
    \/ SpawnerOpen
    \/ SpawnerUpdate
    \/ SpawnerAddLine
    \/ SpawnerSpawn
    \/ SpawnerSpawnPanic
    \/ SpawnerStore
    \/ \E i \in Workers : WStart(i)
    \/ \E i \in Workers : WLookup(i)
    \/ \E i \in Workers : WSelect(i)
    \/ \E i \in Workers : WProbe(i)
    \/ \E i \in Workers : WCached(i)
    \/ \E i \in Workers : WCachedWrite(i)
    \/ \E i \in Workers : WFetch(i)
    \/ \E i \in Workers : WRead(i)
    \/ \E i \in Workers : WVerify(i)
    \/ \E i \in Workers : WWrite(i)

Spec == Init /\ [][Next]_vars

\* The runs of the command lines with one spec.
SingleSpec == SingleInit /\ [][Next]_vars

\* ------------------------------------------------------------ the claims

\* The workers that ended with the given outcome.
Ended(outcome) == { i \in Workers : w[i].pc = "done" /\ w[i].outcome = outcome }

\* App::run ended in or after the join loop (not in the up-front check and
\* not in the render loop).
Aggregated ==
    mainPc = "done" /\ result.kind \in { "Ok", "LoggedError", "Propagated", "Panic" }

\* Every spec has its line in the display and its worker started.
AllSpawned == \A i \in Workers : lines[i].adds = 1 /\ w[i].pc # "idle"

\* C1: with more than one spec and --output, App::run does nothing but fail
\* with "cannot use --output with multiple crates": no display, no spawner,
\* no worker, no index refresh, no progress line, no HTTP request, no write.
C1_RejectUpFront ==
    (N > 1 /\ app.output) =>
        /\ mainPc \in { "check", "done" }
        /\ mainPc = "done" =>
             /\ result.kind = "InvalidUsage"
             /\ result.ctx = << "cannot use --output with multiple crates" >>
        /\ ~barsCreated
        /\ spawnerPc = "idle"
        /\ refreshes = 0
        /\ \A l \in DOMAIN lines : lines[l].adds = 0
        /\ \A i \in Workers : w[i].pc = "idle" /\ w[i].http = 0 /\ ~w[i].wrote

C1_Witness == N > 1 /\ app.output /\ mainPc = "done" /\ result.kind = "InvalidUsage"

\* C2: the index is refreshed at most once, and once the spawner is past the
\* refresh exactly once; a worker is started, or a spec line added, only after
\* that one refresh has returned Ok; when the spawner failed on the index no
\* worker has been started and no spec line added.
C2_RefreshBeforeWorkers ==
    /\ refreshes <= 1
    /\ spawnerPc \in { "idle", "open", "update" } => refreshes = 0
    /\ (spawnerPc \in { "addline", "spawn" } \/ spawnerRes \in { "Ok", "Panicked" })
          => refreshes = 1 /\ indexFresh
    /\ \A i \in Workers :
          (w[i].pc # "idle" \/ lines[i].adds > 0) => refreshes = 1 /\ indexFresh
    /\ spawnerRes = "Err" =>
          /\ ~indexFresh
          /\ \A i \in Workers : w[i].pc = "idle" /\ lines[i].adds = 0

C2_Witness ==
    /\ N = 2 /\ refreshes = 1 /\ indexFresh
    /\ w[1].pc = "select" /\ w[2].pc = "lookup"

\* C3: the spawning flag never goes back to true; whenever it is false, and
\* whenever the main flow has left the render loop, every spec has its line
\* added and its worker started.
C3_SpawningOnce ==
    /\ [](~spawning => AllSpawned)
    /\ []((mainPc \in { "join_spawner", "join_workers" } \/ Aggregated)
            => ~spawning /\ AllSpawned)
    /\ [][~spawning => ~spawning']_vars

C3_Witness == N = 2 /\ ~spawning /\ mainPc = "join_spawner" /\ AllSpawned

\* C4 (as claimed): the panic of a worker is re-raised only after all workers
\* have run to their outcome and have been joined.
C4_PanicAfterAllJoined ==
    (mainPc = "done" /\ result.kind = "Panic" /\ result.err.worker \in Workers) =>
        /\ joined = Workers
        /\ \A i \in Workers : w[i].pc = "done"

\* C5 (as claimed): if a worker panicked, App::run ends by re-raising that
\* panic, whatever the outcomes of the other workers.
C5_PanicWins ==
    (Aggregated /\ Ended("Panicked") # { }) =>
        result.kind = "Panic" /\ result.err.worker \in Ended("Panicked")

\* C6: if some worker ended with a propagated error and none panicked, the
\* run fails with the error of the first such worker in spec order, under the
\* context "could not acquire SPEC" of that worker's spec.
C6_PropagatedWithContext ==
    (Aggregated /\ Ended("Propagated") # { } /\ Ended("Panicked") = { }) =>
        LET k == CHOOSE i \in Ended("Propagated") :
                    \A j \in Ended("Propagated") : i <= j IN
        /\ result.kind = "Propagated"
        /\ result.err = w[k].err
        /\ result.err.worker = k
        /\ result.ctx = << "could not acquire" >> \o SpecToString(app.specs[k])

C6_Witness ==
    /\ Aggregated /\ N = 2 /\ app.specs[1] # app.specs[2]
    /\ w[1].outcome = "Logged" /\ w[2].outcome = "Propagated"
    /\ result.kind = "Propagated"

\* C7: the run ends with the LoggedError sentinel only after every worker has
\* completed and been joined, and exactly when some worker ended with a
\* user-reported failure and none panicked or ended with a propagated error.
C7_SentinelAfterAll ==
    /\ (mainPc = "done" /\ result.kind = "LoggedError") =>
          /\ joined = Workers
          /\ \A i \in Workers : w[i].pc = "done"
          /\ Ended("Logged") # { }
          /\ Ended("Propagated") = { } /\ Ended("Panicked") = { }
    /\ (Aggregated /\ Ended("Logged") # { }
          /\ Ended("Propagated") = { } /\ Ended("Panicked") = { })
          => result.kind = "LoggedError"

C7_Witness ==
    /\ mainPc = "done" /\ result.kind = "LoggedError" /\ N = 2
    /\ w[1].outcome = "Logged" /\ w[2].outcome = "Ok"

\* C8 (as claimed): App::run returns, with success or with an error of the
\* join loop, only after every worker has run to completion.
C8_ReturnsAfterAllWorkers ==
    (mainPc = "done" /\ result.kind \in { "Ok", "LoggedError", "Propagated" }) =>
        \A i \in Workers : w[i].pc = "done"

\* C9: when App::run returns success, every spec line is finished once in the
\* success style with "written X to P" or "extracted X to P" (by mode), the
\* index line is finished in the success style with "updated", and no line is
\* in the failure style or unfinished.
C9_SuccessAllGreen ==
    (mainPc = "done" /\ result.kind = "Ok") =>
        /\ \A i \in Workers :
              /\ lines[i].adds = 1 /\ lines[i].fin = 1 /\ lines[i].style = "green"
              /\ lines[i].msg = << IF app.extract THEN "extracted" ELSE "written",
                                   Selected(i).name, Selected(i).version, "to" >>
                                 \o Output(i)
              /\ w[i].wrote
        /\ lines[IndexLine].adds = 1 /\ lines[IndexLine].fin = 1
        /\ lines[IndexLine].style = "green" /\ lines[IndexLine].msg = << "updated" >>
        /\ \A l \in DOMAIN lines : lines[l].style # "red" /\ lines[l].fin > 0

C9_Witness ==
    /\ mainPc = "done" /\ result.kind = "Ok" /\ N = 2
    /\ w[1].probes = 1 /\ w[1].http = 0 /\ w[2].http = 1

\* C10: every line is added at most once (one per spec and one for the
\* index), finished at most once, and not operated on by its owner after it
\* has been finished.
C10_FinishedOnce ==
    \A l \in DOMAIN lines :
        lines[l].adds <= 1 /\ lines[l].fin <= 1 /\ lines[l].late = 0

C10_Witness ==
    /\ N = 2 /\ lines[IndexLine].fin = 1
    /\ lines[1].fin = 1 /\ lines[1].style = "red" /\ w[1].outcome = "Logged"
    /\ lines[2].fin = 1 /\ lines[2].style = "green" /\ w[2].outcome = "Ok"

\* A line finished once in a terminal style.
Finalized(l) == l.fin = 1 /\ l.style \in { "green", "red" }

\* C11 (as claimed): once the thread owning a line has terminated, the line
\* has been finalized in a terminal style, whatever the exit path.
C11_FinalizedOnEveryExit ==
    /\ \A i \in Workers :
          (w[i].pc = "done" /\ lines[i].adds > 0) => Finalized(lines[i])
    /\ (spawnerPc = "done" /\ lines[IndexLine].adds > 0) => Finalized(lines[IndexLine])

\* C11 (amended): a line is finalized by the time its owner terminates on the
\* exits that return Ok (green) or a user-reported failure (red); on an exit
\* through a propagated error or a panic the owner's line is left as it was:
\* a worker's line unfinished and cyan, the index line unfinished when
\* index.update() failed.
C11_FinalizedUnlessPropagated ==
    /\ \A i \in Workers :
          /\ (w[i].pc = "done" /\ w[i].outcome = "Ok")
                => Finalized(lines[i]) /\ lines[i].style = "green"
          /\ (w[i].pc = "done" /\ w[i].outcome = "Logged")
                => Finalized(lines[i]) /\ lines[i].style = "red"
          /\ (w[i].pc = "done" /\ w[i].outcome \in { "Propagated", "Panicked" })
                => lines[i].fin = 0 /\ lines[i].style = "cyan"
    /\ (spawnerPc = "done" /\ spawnerRes \in { "Ok", "Panicked" })
          => Finalized(lines[IndexLine]) /\ lines[IndexLine].style = "green"
    /\ (spawnerPc = "done" /\ spawnerRes = "Err" /\ lines[IndexLine].adds > 0)
          => lines[IndexLine].fin = 0 /\ lines[IndexLine].style = "cyan"

C11_Witness ==
    /\ N = 2 /\ spawnerPc = "done" /\ spawnerRes = "Ok"
    /\ w[1].pc = "done" /\ w[1].outcome = "Logged" /\ lines[1].style = "red"
    /\ w[2].pc = "done" /\ w[2].outcome = "Propagated" /\ w[2].err.kind = "Http"

\* The worker of spec i has read a body from the network.
Fetched(i) == w[i].body # << >>

\* The body read by the worker of spec i has the digest the index records.
BodyVerifies(i) == Sha256(w[i].body) = Checksum(Selected(i))

\* C12: a fetched body whose digest differs from the recorded checksum ends
\* the worker, once compared, with a user-reported failure on a line finished
\* in the failure style with "invalid checksum", nothing written, and a run
\* that does not return success; a worker on the fetch path is at or past the
\* materialization only with a body whose digest compared equal.
C12_ChecksumBeforeMaterialize ==
    \A i \in Workers :
        /\ (Fetched(i) /\ ~BodyVerifies(i) /\ w[i].pc # "verify") =>
              /\ w[i].pc = "done" /\ w[i].outcome = "Logged"
              /\ Finalized(lines[i]) /\ lines[i].style = "red"
              /\ lines[i].msg = << "invalid checksum" >>
              /\ ~w[i].wrote
              /\ mainPc = "done" => result.kind # "Ok"
        /\ (w[i].http > 0 /\ (w[i].wrote \/ w[i].pc = "write")) =>
              Fetched(i) /\ BodyVerifies(i)

C12_Witness ==
    /\ N = 2
    /\ w[1].pc = "done" /\ Fetched(1) /\ ~BodyVerifies(1) /\ w[1].outcome = "Logged"
    /\ w[2].pc = "done" /\ Fetched(2) /\ BodyVerifies(2) /\ w[2].wrote
    /\ mainPc = "done" /\ result.kind = "LoggedError"

\* The worker of spec i is materializing, or has materialized, into its
\* output path.
Materializing(i) == w[i].wrote \/ w[i].pc \in { "cached_write", "write" }

\* C13 (as claimed): nothing is materialized into an output path unless the
\* digest of the materialized bytes was compared equal to the recorded
\* checksum, whether the bytes came from the cache or from the network.
C13_VerifiedUniformly ==
    \A i \in Workers : w[i].wrote => Fetched(i) /\ BodyVerifies(i)

\* C13 (amended): bytes fetched over HTTP are materialized only after their
\* digest compared equal to the recorded checksum; the bytes of a cache hit
\* are materialized with no digest computed, and that happens only in a run
\* with the cache enabled, after the one probe of the worker and without any
\* HTTP request.
C13_VerifiedUnlessCached ==
    \A i \in Workers :
        Materializing(i) =>
            IF w[i].http > 0
            THEN Fetched(i) /\ BodyVerifies(i)
            ELSE app.cache /\ w[i].probes = 1 /\ ~Fetched(i)

C13_Witness ==
    /\ N = 2
    /\ w[1].pc = "done" /\ w[1].outcome = "Ok" /\ w[1].wrote /\ w[1].http = 0
    /\ w[2].pc = "done" /\ w[2].outcome = "Ok" /\ w[2].wrote /\ w[2].http = 1

\* The releases of a crate, as a set.
ReleasesOf(name) == { IndexCrate(name)[k] : k \in 1..Len(IndexCrate(name)) }

\* The releases of the spec's crate whose yanked flag is in flags, whose
\* version parses and satisfies the requirement of the spec.
Candidates(spec, flags) ==
    { r \in ReleasesOf(spec.name) :
        /\ r.yanked \in flags
        /\ ParseVersion(r.version).ok
        /\ VersionMatches(spec.req, ParseVersion(r.version)) }

\* r has the greatest version of the set c.
Greatest(r, c) ==
    /\ r \in c
    /\ \A o \in c : ~VersionLess(ParseVersion(r.version), ParseVersion(o.version))

\* The worker of spec i found its crate and went through the selection.
SelectionDone(i) ==
    /\ CrateExists(app.specs[i].name)
    /\ w[i].pc \notin { "idle", "start", "lookup", "select" }
    /\ ~(w[i].outcome = "Propagated" /\ w[i].err.kind = "IndexOpen")

\* The worker of spec i ended in the failure of the selection.
SelectionFailed(i) ==
    /\ w[i].pc = "done" /\ w[i].outcome = "Logged"
    /\ lines[i].msg # << >> /\ lines[i].msg[1] = "no matching version found"

\* C14: after the selection, the worker holds the release of greatest version
\* among the releases that are not yanked (or any with allow_yanked), parse as
\* semver and satisfy the requirement; the selection fails exactly when there
\* is no such release.
C14_SelectsGreatestCandidate ==
    \A i \in Workers :
        SelectionDone(i) =>
            LET c == Candidates(app.specs[i],
                                IF app.allow_yanked THEN BOOLEAN ELSE { FALSE })
            IN  /\ SelectionFailed(i) <=> c = { }
                /\ c # { } =>
                     /\ Greatest(Selected(i), c)
                     /\ app.allow_yanked \/ ~Selected(i).yanked
                     /\ ParseVersion(Selected(i).version).ok
                     /\ VersionMatches(app.specs[i].req,
                                       ParseVersion(Selected(i).version))

C14_Witness ==
    /\ app.specs = << Spec0("syn", "^1") >> /\ app.allow_yanked
    /\ w[1].pc = "done" /\ w[1].outcome = "Ok"
    /\ Selected(1).version = "1.1.0"

\* The releases of a crate that are neither yanked nor pre-releases and whose
\* version parses.
PlainReleases(name) ==
    { r \in ReleasesOf(name) :
        /\ ~r.yanked
        /\ ParseVersion(r.version).ok
        /\ ~ParseVersion(r.version).pre }

\* C15: for a spec without a requirement and with allow_yanked unset, the
\* selection holds the newest release that is neither a pre-release nor
\* yanked (and fails when the crate has none), so no pre-release is selected
\* even when it is the highest version of the crate; for the releases
\* {1.0.0, 1.1.0, 1.2.0-pre, 2.0.0 yanked} of serde it holds 1.1.0.
C15_DefaultSelectsNewestPlain ==
    \A i \in Workers :
        (SelectionDone(i) /\ app.specs[i].req = "none" /\ ~app.allow_yanked) =>
            LET plain == PlainReleases(app.specs[i].name) IN
            /\ SelectionFailed(i) <=> plain = { }
            /\ plain # { } =>
                 /\ Greatest(Selected(i), plain)
                 /\ ~ParseVersion(Selected(i).version).pre
                 /\ ~Selected(i).yanked
                 /\ app.specs[i].name = "serde" => Selected(i).version = "1.1.0"

C15_Witness ==
    /\ app.specs = << Spec0("serde", "none") >> /\ ~app.allow_yanked
    /\ w[1].pc = "done" /\ w[1].outcome = "Ok"
    /\ lines[1].msg = DoneMessage(1)
    /\ VersionStr(1) = << "serde", "1.1.0" >>

\* The last word of the yanked hint.
Hint == "use --allow-yanked"

\* C16: a failed selection leaves the line finished once in the failure style
\* and the worker with a user-reported failure; the message is the plain one
\* unless a yanked, parsable release satisfies the requirement, and then it
\* names the highest such release and carries the hint; no line carries the
\* hint in a run with allow_yanked set.
C16_NoMatchMessage ==
    /\ \A i \in Workers :
          (SelectionDone(i) /\ SelectionFailed(i)) =>
              LET yanked == Candidates(app.specs[i], { TRUE }) IN
              /\ Finalized(lines[i]) /\ lines[i].style = "red"
              /\ yanked = { } => lines[i].msg = << "no matching version found" >>
              /\ yanked # { } =>
                   \E r \in yanked :
                       /\ Greatest(r, yanked)
                       /\ lines[i].msg = << "no matching version found", "yanked",
                                            r.name, r.version, Hint >>
    /\ app.allow_yanked =>
          \A l \in DOMAIN lines :
              \A k \in 1..Len(lines[l].msg) : lines[l].msg[k] # Hint

C16_Witness ==
    /\ app.specs = << Spec0("syn", "^1") >> /\ ~app.allow_yanked
    /\ w[1].pc = "done" /\ w[1].outcome = "Logged"
    /\ lines[1].msg = << "no matching version found", "yanked", "syn", "1.1.0", Hint >>

\* The worker of spec i is on the path of a cache hit.
OnCachePath(i) == w[i].pc \in { "cached", "cached_write" }

\* C17, the states: a worker probes the cache only with the cache enabled
\* and at most once; without the cache it is never on the cache path and
\* materializes only what it fetched; on the cache path it has issued no
\* HTTP request; it issues at most one.
C17_ProbeAndFetchState ==
    \A i \in Workers :
        /\ w[i].probes <= 1 /\ w[i].http <= 1
        /\ w[i].probes > 0 => app.cache
        /\ w[i].pc = "probe" => app.cache /\ w[i].probes = 0
        /\ ~app.cache => ~OnCachePath(i) /\ (Materializing(i) => w[i].http = 1)
        /\ OnCachePath(i) => w[i].http = 0 /\ w[i].probes = 1
        /\ w[i].http > 0 => w[i].probes = (IF app.cache THEN 1 ELSE 0)

\* C17, the steps: a worker on the cache path stays on it until it is done
\* and issues no HTTP request; an HTTP request is issued only by a worker at
\* the download that has issued none, after its probe when the cache is
\* enabled.
C17_ProbeAndFetchStep ==
    \A i \in Workers :
        /\ OnCachePath(i) =>
              /\ w'[i].http = 0
              /\ w'[i].pc \in { "cached", "cached_write", "done" }
        /\ w'[i].http # w[i].http =>
              /\ w[i].pc = "fetch" /\ w[i].http = 0
              /\ w[i].probes = (IF app.cache THEN 1 ELSE 0)

\* C17: the cache is probed only when enabled; a cache hit is materialized
\* from the cached file without any HTTP request; the HTTP GET is issued only
\* after a miss or with the cache disabled, at most once per worker.
C17_ProbeOnlyIfEnabledFetchOnce ==
    [](C17_ProbeAndFetchState) /\ [][C17_ProbeAndFetchStep]_vars

C17_Witness ==
    /\ N = 2 /\ app.cache
    /\ w[1].pc = "done" /\ w[1].wrote /\ w[1].http = 0 /\ w[1].probes = 1
    /\ w[2].pc = "done" /\ w[2].wrote /\ w[2].http = 1 /\ w[2].probes = 1

\* The main thread is past the render loop of lines 279-281, having read the
\* flag as false.
LeftRenderLoop ==
    \/ mainPc \in { "join_spawner", "join_workers" }
    \/ Aggregated

\* The line of spec i has been added and is neither finished nor dropped.
Unfinalized(i) == ~LineDone(lines[i])

ReportedOnLine(i) ==
    /\ Finalized(lines[i]) /\ lines[i].style = "red"
    /\ \/ lines[i].msg = << "could not find crate in the index" >>
       \/ lines[i].msg[1] = "no matching version found"
       \/ lines[i].msg = << "invalid checksum" >>

\* C19: a worker has returned the user-reported failure exactly when its own
\* line was finished in the failure style with one of the three reasons, and
\* then it has written nothing; the worker of a crate missing from the index
\* never reaches the selection, the cache probe or the download; a worker
\* that returned a propagated error has left its line unfinished and not in
\* the failure style.
C19_LoggedIffRedLine ==
    \A i \in Workers :
        /\ (w[i].pc = "done" /\ w[i].outcome = "Logged") <=>
              (lines[i].style = "red" \/ (lines[i].adds > 0 /\ ReportedOnLine(i)))
        /\ w[i].outcome = "Logged" => ReportedOnLine(i) /\ ~w[i].wrote
        /\ ~CrateExists(app.specs[i].name) =>
              /\ w[i].pc \in { "idle", "start", "lookup", "done" }
              /\ w[i].probes = 0 /\ w[i].http = 0 /\ ~Fetched(i) /\ ~w[i].wrote
              /\ w[i].outcome = "Logged" =>
                    lines[i].msg = << "could not find crate in the index" >>
        /\ w[i].outcome = "Propagated" =>
              lines[i].style # "red" /\ lines[i].fin = 0

C19_Witness ==
    /\ N = 2
    /\ w[1].outcome = "Logged"
    /\ lines[1].msg = << "could not find crate in the index" >>
    /\ w[2].outcome = "Propagated" /\ w[2].err.kind = "Write" /\ w[2].wrote
    /\ lines[2].style = "cyan"

\* C20: on every path of the spawner thread the flag is set false: once the
\* spawner thread has ended (its closure returned or panicked), spawning,
\* which only that thread stores to, is false, so that the main thread leaves
\* the render loop.
C20_SpawnerEndClearsFlag ==
    spawnerPc = "done" => ~spawning

\* The worker of spec i is in the middle of unpack::unpack, std::fs::copy or
\* std::fs::write into its output path.
Writing(i) == w[i].pc \in { "cached_write", "write" }

\* C21: no two workers are materializing into the same output path at the
\* same time, whatever specs the command line holds.
C21_DistinctOutputPaths ==
    \A i, j \in Workers :
        (i # j /\ Writing(i) /\ Writing(j)) => Output(i) # Output(j)

====
